---- MODULE Spec2Model ----
(***************************************************************************)
(* rtl8152-led-ctrl: the register access layer (src/src/device.rs) and the *)
(* LED configuration codec (src/src/led.rs).                               *)
(*                                                                         *)
(* Spec     the register access layer: bulk read/write and the dword,      *)
(*          word and byte accessors, over a transport whose every control  *)
(*          transfer may succeed in full, come back short or fail.         *)
(* SpecLed  the LED codec: LedGlobalConfig::from_raw and ::to_raw applied  *)
(*          to 32-bit register values.                                     *)
(***************************************************************************)
EXTENDS Integers, Sequences, FiniteSets, TLC

VARIABLES
    pc,         \* "idle" | "read" | "write" (in the bulk loop) | "done" (the operation returned)
    op,         \* the operation in progress or last completed
    cur,        \* read/write: `cur` (usize)
    remaining,  \* read/write: remaining.len()
    calls,      \* control transfers issued by the operation `op`, in order, each with its answer
    result,     \* "none" while running, else "Ok" | "Align" | "Bound" | "Partial" | "Usb"
    retval,     \* <<>> or <<v>>: the value an accessor returned with Ok
    lane,       \* <<>> or <<bytes>>: the 4 bytes the device put in the buffer of the last read
    usb_error,  \* <<>> or <<e>>: the rusb::Error wrapped in the Error::Usb(e) returned
    led_in,     \* codec: the raw 32-bit register value handed to from_raw
    led_config, \* codec: <<>> or <<LedGlobalConfig>>
    led_out,    \* codec: <<>> or <<to_raw(config)>>
    cmd         \* set command: <<>> or <<CmdSet>>, the parsed options of the run

devvars == <<pc, op, cur, remaining, calls, result, retval, lane, usb_error>>
ledvars == <<led_in, led_config, led_out>>
vars == <<pc, op, cur, remaining, calls, result, retval, lane, usb_error, led_in, led_config, led_out, cmd>>

----------------------------------------------------------------------------
(* Fixed-width integer arithmetic                                          *)

Pow2(n) == 2 ^ n

U8(x) == x % 256
U16(x) == x % 65536

Bits(n) == { i \in 0 .. 30 : (n \div Pow2(i)) % 2 = 1 }

Bit(s, i) == IF i \in s THEN Pow2(i) ELSE 0

(* The number whose one bits are at the positions of s, s within 0..15.    *)
Val(s) ==
    Bit(s, 0) + Bit(s, 1) + Bit(s, 2) + Bit(s, 3)
        + Bit(s, 4) + Bit(s, 5) + Bit(s, 6) + Bit(s, 7)
        + Bit(s, 8) + Bit(s, 9) + Bit(s, 10) + Bit(s, 11)
        + Bit(s, 12) + Bit(s, 13) + Bit(s, 14) + Bit(s, 15)

(* &, | and ! of u8 and u16 values.                                        *)
BitAnd(a, b) == Val(Bits(a) \cap Bits(b))
BitOr(a, b) == Val(Bits(a) \cup Bits(b))
Not16(x) == 65535 - x
Shl8(x, n) == U8(x * Pow2(n))

(* A u32 is the set of the positions (0 = least significant) of its one    *)
(* bits: a 32-bit value does not fit the integers of the model checker.    *)
(* &, | and ! are intersection, union and complement; a shift moves the    *)
(* positions and drops those that leave 0..31.                             *)
BitPos32 == 0 .. 31

And32(a, b) == a \cap b
Or32(a, b) == a \cup b
Not32(a) == BitPos32 \ a
Shl32(a, n) == { i + n : i \in a } \cap BitPos32
Shr32(a, n) == { i - n : i \in a } \cap BitPos32
AsU16(a) == Val(a \cap (0 .. 15))
AsU8(a) == Val(a \cap (0 .. 7))

to_le_bytes(v) ==
    [ k \in 1 .. 4 |-> Val({ i \in 0 .. 7 : (8 * (k - 1) + i) \in v }) ]

from_le_bytes(b) ==
    { p \in BitPos32 : (b[(p \div 8) + 1] \div Pow2(p % 8)) % 2 = 1 }

Min(a, b) == IF a < b THEN a ELSE b

----------------------------------------------------------------------------
(* device.rs: constants                                                    *)

RTL8152_REQT_READ == 192
RTL8152_REQT_WRITE == 64
RTL8152_REQ_REGS == 5
MCU_TYPE_USB == 0
MCU_TYPE_PLA == 256
BYTE_EN_DWORD == 255
BYTE_EN_WORD == 51
BYTE_EN_BYTE == 17
CTRL_READ_LIMIT == 64
CTRL_WRITE_LIMIT == 512
U16_MAX == 65535

RegType == {"Usb", "Pla"}

RegType_to_raw(ty) == IF ty = "Usb" THEN MCU_TYPE_USB ELSE MCU_TYPE_PLA

is_aligned_WordAny(align, offset) ==
    IF align = "Word" THEN TRUE ELSE offset % 4 = 0

is_aligned(align, offset) ==
    IF align = "Word" THEN offset % 2 = 0 ELSE offset % 4 = 0

dword_align(offset) == BitAnd(offset, Not16(3))

check_bound_EndInclusive(offset, len) ==
    IF ~is_aligned("Dword", offset) \/ ~is_aligned("Dword", len) THEN "Align"
    ELSE IF offset + len > U16_MAX + 1 THEN "Bound"
    ELSE "Ok"

check_bound_OffsetOnly(offset, len) ==
    IF ~is_aligned("Dword", offset) THEN "Align"
    ELSE IF offset + len > U16_MAX THEN "Bound"
    ELSE "Ok"

check_bound(offset, len) ==
    IF ~is_aligned("Dword", offset) \/ ~is_aligned("Dword", len) THEN "Align"
    ELSE IF offset + len > U16_MAX THEN "Bound"
    ELSE "Ok"

----------------------------------------------------------------------------
(* The transport: rusb's read_control / write_control.  A call returns     *)
(* Err(e), e a rusb::Error, or Ok(n), n the number of bytes transferred.   *)

UsbErrors == {"Timeout", "Pipe"}

TransportOutcomes(len) ==
    {[usb |-> TRUE, n |-> 0, err |-> e] : e \in UsbErrors}
        \cup {[usb |-> FALSE, n |-> k, err |-> "none"] : k \in {0, len - 1, len}}

(* From<rusb::Error> for Error, applied by `?`: Err(e) becomes Error::Usb(e) *)
FromUsb(out) == IF out.usb THEN << out.err >> ELSE <<>>

(* A control transfer as issued (request type, request, value, index, the  *)
(* buffer's length, a write's payload) with what the transport answered.   *)
ControlCall(reqt, ty, offset, byte_mask, len, bytes, out) ==
    [ request_type |-> reqt,
      request      |-> RTL8152_REQ_REGS,
      value        |-> offset,
      index        |-> BitOr(RegType_to_raw(ty), byte_mask),
      len          |-> len,
      bytes        |-> bytes,
      ret          |-> out ]

read_reg_Unchecked(ty, offset, byte_mask, len, out) ==
    IF len = 0 THEN [res |-> "Ok", err |-> <<>>, calls |-> <<>>]
    ELSE [ res   |-> IF out.usb THEN "Usb"
                     ELSE IF out.n # len THEN "Partial" ELSE "Ok",
           err   |-> FromUsb(out),
           calls |-> << ControlCall(RTL8152_REQT_READ, ty, offset, byte_mask, len, <<>>, out) >> ]

read_reg(ty, offset, byte_mask, len, out) ==
    IF len = 0 THEN [res |-> "Ok", err |-> <<>>, calls |-> <<>>]
    ELSE IF check_bound(offset, len) # "Ok"
        THEN [res |-> check_bound(offset, len), err |-> <<>>, calls |-> <<>>]
    ELSE [ res   |-> IF out.usb THEN "Usb"
                     ELSE IF out.n # len THEN "Partial" ELSE "Ok",
           err   |-> FromUsb(out),
           calls |-> << ControlCall(RTL8152_REQT_READ, ty, offset, byte_mask, len, <<>>, out) >> ]

write_reg(ty, offset, byte_mask, len, bytes, out) ==
    IF len = 0 THEN [res |-> "Ok", err |-> <<>>, calls |-> <<>>]
    ELSE IF check_bound(offset, len) # "Ok"
        THEN [res |-> check_bound(offset, len), err |-> <<>>, calls |-> <<>>]
    ELSE [ res   |-> IF out.usb THEN "Usb"
                     ELSE IF out.n # len THEN "Partial" ELSE "Ok",
           err   |-> FromUsb(out),
           calls |-> << ControlCall(RTL8152_REQT_WRITE, ty, offset, byte_mask, len, bytes, out) >> ]

----------------------------------------------------------------------------
(* led.rs: the LED configuration codec                                     *)

PLA_LED_SELECT == 56720

LED_SEL_LINK_10 == Bits(1)
LED_SEL_LINK_100 == Shl32(Bits(1), 1)
LED_SEL_LINK_1000 == Shl32(Bits(1), 2)
LED_SEL_ACTIVITY == Shl32(Bits(1), 3)

LED_VALUE_MASK == Bits(1048575)

LedConfig_from_raw_NoShift(I, value) ==
    LET led_select == value
        high_active == And32(value, Shl32(Bits(1), 12 + I))
    IN  [ link10      |-> And32(led_select, LED_SEL_LINK_10) # {},
          link100     |-> And32(led_select, LED_SEL_LINK_100) # {},
          link1000    |-> And32(led_select, LED_SEL_LINK_1000) # {},
          activity    |-> And32(led_select, LED_SEL_ACTIVITY) # {},
          high_active |-> high_active # {} ]

LedConfig_from_raw(I, value) ==
    LET led_select == Shr32(value, I * 4)
        high_active == And32(value, Shl32(Bits(1), 12 + I))
    IN  [ link10      |-> And32(led_select, LED_SEL_LINK_10) # {},
          link100     |-> And32(led_select, LED_SEL_LINK_100) # {},
          link1000    |-> And32(led_select, LED_SEL_LINK_1000) # {},
          activity    |-> And32(led_select, LED_SEL_ACTIVITY) # {},
          high_active |-> high_active # {} ]

LedConfig_to_raw(I, led) ==
    LET s1 == IF led.link10 THEN LED_SEL_LINK_10 ELSE {}
        s2 == IF led.link100 THEN Or32(s1, LED_SEL_LINK_100) ELSE s1
        s3 == IF led.link1000 THEN Or32(s2, LED_SEL_LINK_1000) ELSE s2
        s4 == IF led.activity THEN Or32(s3, LED_SEL_ACTIVITY) ELSE s3
        s5 == Shl32(s4, I * 4)
    IN  IF led.high_active THEN Or32(s5, Shl32(Bits(1), 12 + I)) ELSE s5

(* A Result: Ok(v) or Err(Error::Parse); unwrap() of an Err panics.        *)
Unwrap(r) == IF r.ok THEN r.v ELSE "panic"

BlinkInterval_from_num(num) ==
    CASE num = 0 -> [ok |-> TRUE, v |-> "I240"]
      [] num = 1 -> [ok |-> TRUE, v |-> "I160"]
      [] num = 2 -> [ok |-> TRUE, v |-> "I80"]
      [] num = 3 -> [ok |-> TRUE, v |-> "ILink"]
      [] OTHER   -> [ok |-> FALSE, v |-> "Parse"]

BlinkInterval_as_u32(self) ==
    CASE self = "I240" -> 0 [] self = "I160" -> 1 [] self = "I80" -> 2 [] self = "ILink" -> 3

BlinkInterval_from_raw(value) ==
    Unwrap(BlinkInterval_from_num(AsU8(And32(Shr32(value, 18), Bits(3)))))

BlinkInterval_to_raw(self) == Shl32(Bits(BlinkInterval_as_u32(self)), 18)

BlinkDutyCycle_from_num(num) ==
    CASE num = 0 -> [ok |-> TRUE, v |-> "R12_5"]
      [] num = 1 -> [ok |-> TRUE, v |-> "R25"]
      [] num = 2 -> [ok |-> TRUE, v |-> "R50"]
      [] num = 3 -> [ok |-> TRUE, v |-> "R75"]
      [] OTHER   -> [ok |-> FALSE, v |-> "Parse"]

BlinkDutyCycle_as_u32(self) ==
    CASE self = "R12_5" -> 0 [] self = "R25" -> 1 [] self = "R50" -> 2 [] self = "R75" -> 3

BlinkDutyCycle_from_raw(value) ==
    Unwrap(BlinkDutyCycle_from_num(AsU8(And32(Shr32(value, 16), Bits(3)))))

BlinkDutyCycle_to_raw(self) == Shl32(Bits(BlinkDutyCycle_as_u32(self)), 16)

LedGlobalConfig_from_raw(value) ==
    LET all_link_activity == And32(value, Shl32(Bits(1), 15))
    IN  [ led_0             |-> LedConfig_from_raw(0, value),
          led_1             |-> LedConfig_from_raw(1, value),
          led_2             |-> LedConfig_from_raw(2, value),
          all_link_activity |-> all_link_activity # {},
          blink_interval    |-> BlinkInterval_from_raw(value),
          blink_duty_cycle  |-> BlinkDutyCycle_from_raw(value),
          unknown           |-> And32(value, Not32(LED_VALUE_MASK)) ]

LedGlobalConfig_to_raw_NoResidue(self) ==
    LET led_0 == LedConfig_to_raw(0, self.led_0)
        led_1 == LedConfig_to_raw(1, self.led_1)
        led_2 == LedConfig_to_raw(2, self.led_2)
        all_link_activity == Shl32(Bits(IF self.all_link_activity THEN 1 ELSE 0), 15)
        blink_interval == BlinkInterval_to_raw(self.blink_interval)
        blink_duty_cycle == BlinkDutyCycle_to_raw(self.blink_duty_cycle)
    IN  Or32(led_0, Or32(led_1, Or32(led_2, Or32(all_link_activity,
            Or32(blink_interval, blink_duty_cycle)))))

LedGlobalConfig_to_raw(self) ==
    LET led_0 == LedConfig_to_raw(0, self.led_0)
        led_1 == LedConfig_to_raw(1, self.led_1)
        led_2 == LedConfig_to_raw(2, self.led_2)
        all_link_activity == Shl32(Bits(IF self.all_link_activity THEN 1 ELSE 0), 15)
        blink_interval == BlinkInterval_to_raw(self.blink_interval)
        blink_duty_cycle == BlinkDutyCycle_to_raw(self.blink_duty_cycle)
    IN  Or32(led_0, Or32(led_1, Or32(led_2, Or32(all_link_activity,
            Or32(blink_interval, Or32(blink_duty_cycle,
                And32(self.unknown, Not32(LED_VALUE_MASK))))))))

(* Register values handed to the codec: every byte of the value ranges     *)
(* over RawBytes, so each of the 32 bits is set in some and clear in some. *)
RawBytes == {0, 1, 2, 4, 8, 16, 90, 128, 165, 255}

RawValues == { from_le_bytes(<<a, b, c, d>>) : a \in RawBytes, b \in RawBytes,
                                                c \in RawBytes, d \in RawBytes }

----------------------------------------------------------------------------
(* Inputs                                                                  *)

(* Buffer lengths: every length up to MaxLen (three read chunks), and      *)
(* lengths around one, two and three write chunks.                         *)
MaxLen == 130

BigLens == {508, 512, 513, 514, 516, 1020, 1024, 1026, 1028, 1540}

Lens == (0 .. MaxLen) \cup BigLens

MaxEdge == 11

(* Offsets: the first and the last MaxEdge + 1 of the 16-bit space, the   *)
(* two registers the program names (0xDD90, 0xE610), and offsets one or    *)
(* more chunks below the end of the space.                                 *)
Offsets ==
    (0 .. MaxEdge) \cup ((65535 - MaxEdge) .. 65535)
        \cup { 56720, 58896, 63996, 64000, 64508, 64512, 65020, 65021, 65024, 65028,
               65404, 65408, 65468, 65472, 65476 }

ByteValues == {0, 1, 127, 128, 255}
WordValues == {0, 1, 258, 32768, 65535}
DeviceLanes ==
    { <<0, 0, 0, 0>>, <<1, 2, 3, 4>>, <<1, 127, 255, 128>>,
      <<239, 190, 173, 222>>, <<255, 255, 255, 255>> }

DwordValues == { from_le_bytes(b) : b \in DeviceLanes }

Operation(name, ty, offset, len, value) ==
    [name |-> name, ty |-> ty, offset |-> offset, len |-> len, value |-> value]

----------------------------------------------------------------------------
(* device.rs: the width accessors.  Each takes the outcome `out` of the    *)
(* control transfer it may issue and, for a read, the bytes `dev` the       *)
(* device puts in the buffer, and yields the Result and the calls issued.  *)

Outcome(r, ret, dev) ==
    [ res   |-> r.res,
      err   |-> r.err,
      calls |-> r.calls,
      ret   |-> IF r.res = "Ok" THEN ret ELSE <<>>,
      lane  |-> IF r.res = "Ok" THEN dev ELSE <<>> ]

AlignError == [res |-> "Align", err |-> <<>>, calls |-> <<>>, ret |-> <<>>, lane |-> <<>>]

read_dword(ty, offset, out, dev) ==
    Outcome(read_reg(ty, offset, BYTE_EN_DWORD, 4, out),
            << from_le_bytes(dev) >>, << dev >>)

write_dword(ty, offset, value, out) ==
    Outcome(write_reg(ty, offset, BYTE_EN_DWORD, 4, to_le_bytes(value), out),
            <<>>, <<>>)

read_word(ty, offset, out, dev) ==
    IF ~is_aligned("Word", offset) THEN AlignError
    ELSE LET byte_shift == BitAnd(offset, 2)
             aligned == dword_align(offset)
             byte_mask == Shl8(BYTE_EN_WORD, byte_shift)
         IN  Outcome(read_reg(ty, aligned, byte_mask, 4, out),
                     << AsU16(Shr32(from_le_bytes(dev), byte_shift * 8)) >>, << dev >>)

write_word(ty, offset, value, out) ==
    IF ~is_aligned("Word", offset) THEN AlignError
    ELSE LET byte_shift == BitAnd(offset, 2)
             aligned == dword_align(offset)
             byte_mask == Shl8(BYTE_EN_WORD, byte_shift)
             data == to_le_bytes(Shl32(Bits(value), byte_shift * 8))
         IN  Outcome(write_reg(ty, aligned, byte_mask, 4, data, out), <<>>, <<>>)

read_byte(ty, offset, out, dev) ==
    LET byte_shift == BitAnd(offset, 3)
        aligned == dword_align(offset)
    IN  Outcome(read_reg(ty, aligned, BYTE_EN_DWORD, 4, out),
                << AsU8(And32(Shr32(from_le_bytes(dev), byte_shift * 8), Bits(255))) >>, << dev >>)

write_byte(ty, offset, value, out) ==
    LET byte_shift == BitAnd(offset, 3)
        aligned == dword_align(offset)
        byte_mask == Shl8(BYTE_EN_BYTE, byte_shift)
        data == to_le_bytes(Shl32(Bits(value), byte_shift * 8))
    IN  Outcome(write_reg(ty, aligned, byte_mask, 4, data, out), <<>>, <<>>)

----------------------------------------------------------------------------
(* device.rs: revision identification and handle construction              *)

PLA_TCR0 == 58896
VERSION_MASK == 31984

(* The match arms of Version::from_raw, in source order. *)
VersionTable ==
    { <<19456, "V1">>, <<19472, "V2">>, <<23552, "V3">>, <<23568, "V4">>,
      <<23584, "V5">>, <<23600, "V6">>, <<18432, "V7">>, <<24576, "V8">>,
      <<24592, "V9">>, <<28688, "Test1">>, <<28704, "V10">>, <<28720, "V11">>,
      <<29696, "V12">>, <<29712, "V13">>, <<25600, "V14">>, <<29728, "V15">> }

(* A Version is << name >>, or << "Unknown", code >> for the last arm. *)
Version_from_raw(code) ==
    IF \E p \in VersionTable : p[1] = code
      THEN << (CHOOSE p \in VersionTable : p[1] = code)[2] >>
      ELSE << "Unknown", code >>

version_NoMask(out, dev) ==
    LET r == read_dword("Pla", PLA_TCR0, out, dev)
    IN  IF r.res # "Ok" THEN r
        ELSE [r EXCEPT !.ret = << Version_from_raw(AsU16(Shr32(r.ret[1], 16))) >>]

version(out, dev) ==
    LET r == read_dword("Pla", PLA_TCR0, out, dev)
    IN  IF r.res # "Ok" THEN r
        ELSE [r EXCEPT !.ret =
                  << Version_from_raw(AsU16(And32(Shr32(r.ret[1], 16), Bits(VERSION_MASK)))) >>]

new(out, dev) ==
    LET r == version(out, dev)
    IN  IF r.res # "Ok" THEN r
        ELSE IF r.ret[1][1] = "Unknown"
            THEN [r EXCEPT !.res = "UnknownDevice", !.ret = <<>>]
        ELSE [r EXCEPT !.ret = << "CtrlDevice" >>]

(* What the device answers at PLA_TCR0: every known code with the bits the *)
(* mask drops clear and set, codes next to known ones, and DeviceLanes.    *)
VersionLanes ==
    { <<0, 0, p[1] % 256, p[1] \div 256>> : p \in VersionTable }
        \cup { <<255, 255, (p[1] % 256) + 15, (p[1] \div 256) + 131>> : p \in VersionTable }
        \cup { <<0, 0, 32, 76>>, <<0, 0, 48, 116>>, <<0, 0, 16, 72>>, <<0, 0, 0, 68>> }
        \cup DeviceLanes

----------------------------------------------------------------------------
Init ==
    /\ pc = "idle"
    /\ op = Operation("none", "Usb", 0, 0, 0)
    /\ cur = 0
    /\ remaining = 0
    /\ calls = <<>>
    /\ result = "none"
    /\ retval = <<>>
    /\ lane = <<>>
    /\ usb_error = <<>>
    /\ led_in = {}
    /\ led_config = <<>>
    /\ led_out = <<>>
    /\ cmd = <<>>

----------------------------------------------------------------------------
(* Actions of the register access layer                                    *)

Finish(o, r) ==
    /\ pc' = "done"
    /\ op' = o
    /\ calls' = r.calls
    /\ result' = r.res
    /\ retval' = r.ret
    /\ lane' = r.lane
    /\ usb_error' = r.err
    /\ UNCHANGED <<cur, remaining, led_in, led_config, led_out, cmd>>

ReadDword ==
    /\ pc = "idle"
    /\ \E ty \in RegType, offset \in Offsets, out \in TransportOutcomes(4), dev \in DeviceLanes :
           Finish(Operation("read_dword", ty, offset, 4, 0), read_dword(ty, offset, out, dev))

WriteDword ==
    /\ pc = "idle"
    /\ \E ty \in RegType, offset \in Offsets, value \in DwordValues, out \in TransportOutcomes(4) :
           Finish(Operation("write_dword", ty, offset, 4, value), write_dword(ty, offset, value, out))

ReadWord ==
    /\ pc = "idle"
    /\ \E ty \in RegType, offset \in Offsets, out \in TransportOutcomes(4), dev \in DeviceLanes :
           Finish(Operation("read_word", ty, offset, 2, 0), read_word(ty, offset, out, dev))

WriteWord ==
    /\ pc = "idle"
    /\ \E ty \in RegType, offset \in Offsets, value \in WordValues, out \in TransportOutcomes(4) :
           Finish(Operation("write_word", ty, offset, 2, value), write_word(ty, offset, value, out))

ReadByte ==
    /\ pc = "idle"
    /\ \E ty \in RegType, offset \in Offsets, out \in TransportOutcomes(4), dev \in DeviceLanes :
           Finish(Operation("read_byte", ty, offset, 1, 0), read_byte(ty, offset, out, dev))

WriteByte ==
    /\ pc = "idle"
    /\ \E ty \in RegType, offset \in Offsets, value \in ByteValues, out \in TransportOutcomes(4) :
           Finish(Operation("write_byte", ty, offset, 1, value), write_byte(ty, offset, value, out))

BulkEnter_CheckFirst(name, ty, offset, len) ==
    /\ op' = Operation(name, ty, offset, len, 0)
    /\ cur' = offset
    /\ remaining' = len
    /\ calls' = <<>>
    /\ retval' = <<>>
    /\ lane' = <<>>
    /\ usb_error' = <<>>
    /\ IF check_bound(offset, len) # "Ok"
          THEN pc' = "done" /\ result' = check_bound(offset, len)
          ELSE IF len = 0
                  THEN pc' = "done" /\ result' = "Ok"
                  ELSE pc' = name /\ result' = "none"
    /\ UNCHANGED <<led_in, led_config, led_out, cmd>>

(* read / write: entry (cur = offset, remaining = data) up to the first    *)
(* evaluation of the loop condition.                                        *)
BulkEnter(name, ty, offset, len) ==
    /\ op' = Operation(name, ty, offset, len, 0)
    /\ cur' = offset
    /\ remaining' = len
    /\ calls' = <<>>
    /\ retval' = <<>>
    /\ lane' = <<>>
    /\ usb_error' = <<>>
    /\ IF len = 0
          THEN pc' = "done" /\ result' = "Ok"
          ELSE pc' = name /\ result' = "none"
    /\ UNCHANGED <<led_in, led_config, led_out, cmd>>

BulkIterate_NoAdvance(r, n) ==
    /\ calls' = calls \o r.calls
    /\ remaining' = remaining - n
    /\ usb_error' = r.err
    /\ cur' = cur
    /\ IF r.res # "Ok"
          THEN pc' = "done" /\ result' = r.res
          ELSE IF remaining - n = 0
                  THEN pc' = "done" /\ result' = "Ok"
                  ELSE pc' = pc /\ result' = "none"
    /\ UNCHANGED <<op, retval, lane, led_in, led_config, led_out, cmd>>

BulkIterate_IgnoreError(r, n) ==
    /\ calls' = calls \o r.calls
    /\ remaining' = remaining - n
    /\ IF r.res \in {"Align", "Bound"}
          THEN /\ pc' = "done"
               /\ result' = r.res
               /\ usb_error' = <<>>
               /\ cur' = cur
          ELSE /\ cur' = cur + n
               /\ IF remaining - n = 0
                     THEN pc' = "done" /\ result' = r.res /\ usb_error' = r.err
                     ELSE pc' = pc /\ result' = "none" /\ usb_error' = <<>>
    /\ UNCHANGED <<op, retval, lane, led_in, led_config, led_out, cmd>>

(* One iteration of the loop body, then the loop condition again.           *)
BulkIterate(r, n) ==
    /\ calls' = calls \o r.calls
    /\ remaining' = remaining - n
    /\ usb_error' = r.err
    /\ IF r.res # "Ok"
          THEN /\ pc' = "done"
               /\ result' = r.res
               /\ cur' = cur
          ELSE /\ cur' = cur + n
               /\ IF remaining - n = 0
                     THEN pc' = "done" /\ result' = "Ok"
                     ELSE pc' = pc /\ result' = "none"
    /\ UNCHANGED <<op, retval, lane, led_in, led_config, led_out, cmd>>

Read ==
    /\ pc = "idle"
    /\ \E ty \in RegType, offset \in Offsets, len \in Lens :
           BulkEnter("read", ty, offset, len)

ReadChunk ==
    /\ pc = "read"
    /\ LET n == Min(remaining, CTRL_READ_LIMIT)
       IN  \E out \in TransportOutcomes(n) :
               BulkIterate(read_reg(op.ty, U16(cur), BYTE_EN_DWORD, n, out), n)

Write ==
    /\ pc = "idle"
    /\ \E ty \in RegType, offset \in Offsets, len \in Lens :
           BulkEnter("write", ty, offset, len)

WriteChunk ==
    /\ pc = "write"
    /\ LET n == Min(remaining, CTRL_WRITE_LIMIT)
       IN  \E out \in TransportOutcomes(n) :
               BulkIterate(write_reg(op.ty, U16(cur), BYTE_EN_DWORD, n, <<>>, out), n)

VersionOp ==
    /\ pc = "idle"
    /\ \E out \in TransportOutcomes(4), dev \in VersionLanes :
           Finish(Operation("version", "Pla", PLA_TCR0, 4, 0), version(out, dev))

New ==
    /\ pc = "idle"
    /\ \E out \in TransportOutcomes(4), dev \in VersionLanes :
           Finish(Operation("new", "Pla", PLA_TCR0, 4, 0), new(out, dev))

(* The caller takes the Result; the handle is free for the next operation. *)
Return ==
    /\ pc = "done"
    /\ pc' = "idle"
    /\ op' = Operation("none", "Usb", 0, 0, 0)
    /\ cur' = 0
    /\ remaining' = 0
    /\ calls' = <<>>
    /\ result' = "none"
    /\ retval' = <<>>
    /\ lane' = <<>>
    /\ usb_error' = <<>>
    /\ UNCHANGED <<led_in, led_config, led_out, cmd>>

Next ==
    \/ Read
    \/ ReadChunk
    \/ Write
    \/ WriteChunk
    \/ ReadDword
    \/ WriteDword
    \/ ReadWord
    \/ WriteWord
    \/ ReadByte
    \/ WriteByte
    \/ VersionOp
    \/ New
    \/ Return

Spec == Init /\ [][Next]_vars

----------------------------------------------------------------------------
(* The codec applied to a register value: decode, then encode.             *)

InitLed ==
    /\ pc = "idle"
    /\ op = Operation("none", "Usb", 0, 0, 0)
    /\ cur = 0
    /\ remaining = 0
    /\ calls = <<>>
    /\ result = "none"
    /\ retval = <<>>
    /\ lane = <<>>
    /\ usb_error = <<>>
    /\ led_in \in RawValues
    /\ led_config = <<>>
    /\ led_out = <<>>
    /\ cmd = <<>>

FromRaw ==
    /\ led_config = <<>>
    /\ led_config' = << LedGlobalConfig_from_raw(led_in) >>
    /\ UNCHANGED <<pc, op, cur, remaining, calls, result, retval, lane, usb_error, led_in, led_out, cmd>>

ToRaw ==
    /\ led_config # <<>>
    /\ led_out = <<>>
    /\ led_out' = << LedGlobalConfig_to_raw(led_config[1]) >>
    /\ UNCHANGED <<pc, op, cur, remaining, calls, result, retval, lane, usb_error, led_in, led_config, cmd>>

NextLed ==
    \/ FromRaw
    \/ ToRaw

SpecLed == InitLed /\ [][NextLed]_vars

----------------------------------------------------------------------------
(* main.rs: the set command                                                *)

None == <<>>
Some(v) == << v >>

ArgLink(l10, l100, l1000) == [link10 |-> l10, link100 |-> l100, link1000 |-> l1000]

(* The three options of one LED as given on the command line. *)
LedOpts(link, act, reverse) == [link |-> link, act |-> act, reverse |-> reverse]

LedOptValues ==
    { LedOpts(None, None, None),
      LedOpts(Some(ArgLink(TRUE, FALSE, TRUE)), Some(TRUE), Some(TRUE)),
      LedOpts(Some(ArgLink(FALSE, FALSE, FALSE)), Some(FALSE), Some(FALSE)),
      LedOpts(Some(ArgLink(FALSE, TRUE, FALSE)), None, Some(TRUE)),
      LedOpts(None, Some(TRUE), None),
      LedOpts(Some(ArgLink(TRUE, TRUE, TRUE)), Some(FALSE), None) }

Led0OptValues ==
    { LedOpts(None, None, None),
      LedOpts(Some(ArgLink(FALSE, TRUE, FALSE)), Some(TRUE), Some(TRUE)),
      LedOpts(None, Some(FALSE), None) }

(* act_all, interval and duty_cycle as given; 7 is a u8 no arm of from_num *)
(* accepts.                                                                *)
GlobalOptValues ==
    { [act_all |-> None, interval |-> None, duty_cycle |-> None],
      [act_all |-> Some(TRUE), interval |-> Some(1), duty_cycle |-> Some(0)],
      [act_all |-> Some(FALSE), interval |-> Some(7), duty_cycle |-> Some(7)],
      [act_all |-> None, interval |-> Some(0), duty_cycle |-> None] }

RawOptValues == { None, Some(from_le_bytes(<<165, 90, 165, 90>>)) }

CmdSet(l0, l1, l2, g, raw, dry, no_default) ==
    [ no_default   |-> no_default,
      led0_link    |-> l0.link,
      led1_link    |-> l1.link,
      led2_link    |-> l2.link,
      led0_act     |-> l0.act,
      led1_act     |-> l1.act,
      led2_act     |-> l2.act,
      led0_reverse |-> l0.reverse,
      led1_reverse |-> l1.reverse,
      led2_reverse |-> l2.reverse,
      act_all      |-> g.act_all,
      interval     |-> g.interval,
      duty_cycle   |-> g.duty_cycle,
      raw          |-> raw,
      dry          |-> dry ]

CmdSetValues ==
    { CmdSet(l0, l1, l2, g, raw, dry, no_default) :
          l0 \in Led0OptValues, l1 \in LedOptValues, l2 \in LedOptValues,
          g \in GlobalOptValues, raw \in RawOptValues,
          dry \in BOOLEAN, no_default \in BOOLEAN }

unwrap_or(r, default) == IF r.ok THEN r.v ELSE default

update_led_x(I, link, act, reverse, led, default) ==
    LET l1 == IF link # None
                THEN [led EXCEPT !.link10 = link[1].link10,
                                 !.link100 = link[1].link100,
                                 !.link1000 = link[1].link1000]
              ELSE IF default
                THEN [led EXCEPT !.link10 = (I = 0), !.link100 = (I = 0), !.link1000 = (I = 0)]
              ELSE led
        l2 == IF act # None THEN [l1 EXCEPT !.activity = act[1]]
              ELSE IF default THEN [l1 EXCEPT !.activity = (I = 1)]
              ELSE l1
    IN  IF reverse # None THEN [l2 EXCEPT !.high_active = reverse[1]]
        ELSE IF default THEN [l2 EXCEPT !.high_active = FALSE]
        ELSE l2

update_led_config(self, config, default) ==
    LET c1 == [config EXCEPT
                  !.led_0 = update_led_x(0, self.led0_link, self.led0_act, self.led0_reverse, @, default),
                  !.led_1 = update_led_x(1, self.led1_link, self.led1_act, self.led1_reverse, @, default),
                  !.led_2 = update_led_x(2, self.led1_link, self.led1_act, self.led1_reverse, @, default)]
        c2 == IF self.act_all # None THEN [c1 EXCEPT !.all_link_activity = self.act_all[1]]
              ELSE IF default THEN [c1 EXCEPT !.all_link_activity = FALSE]
              ELSE c1
        c3 == IF self.interval # None
                THEN [c2 EXCEPT !.blink_interval =
                          unwrap_or(BlinkInterval_from_num(self.interval[1]), "ILink")]
              ELSE IF default THEN [c2 EXCEPT !.blink_interval = "ILink"]
              ELSE c2
    IN  IF self.duty_cycle # None
          THEN [c3 EXCEPT !.blink_duty_cycle =
                    unwrap_or(BlinkDutyCycle_from_num(self.duty_cycle[1]), "R75")]
        ELSE IF default THEN [c3 EXCEPT !.blink_duty_cycle = "R50"]
        ELSE c3

LedGlobalConfig_read_from(out, dev) ==
    LET r == read_dword("Pla", PLA_LED_SELECT, out, dev)
    IN  IF r.res # "Ok" THEN r
        ELSE [r EXCEPT !.ret = << LedGlobalConfig_from_raw(r.ret[1]) >>]

LedGlobalConfig_write_to(self, out) ==
    write_dword("Pla", PLA_LED_SELECT, LedGlobalConfig_to_raw(self), out)

(* What the libusb calls outside the register layer answer: device         *)
(* enumeration and open, and the descriptor reads of print_device_line.    *)
UsbAnswers == {"ok"} \cup UsbErrors

(* The device's answers at PLA_TCR0 and at PLA_LED_SELECT. *)
SetVersionLanes == { <<0, 0, 0, 76>>, <<255, 255, 47, 223>>, <<0, 0, 32, 76>> }

SetLedLanes == { <<0, 0, 0, 0>>, <<165, 90, 165, 90>>, <<255, 255, 255, 255>> }

(* handle_cmd_set returns res; `newcalls` were issued by the failing step. *)
SetReturns(res, err, newcalls) ==
    /\ pc' = "done"
    /\ result' = res
    /\ usb_error' = err
    /\ calls' = calls \o newcalls
    /\ UNCHANGED <<op, cur, remaining, retval, lane, led_in, led_config, led_out, cmd>>

SetContinues(next, newcalls) ==
    /\ pc' = next
    /\ calls' = calls \o newcalls
    /\ UNCHANGED <<op, cur, remaining, result, retval, lane, usb_error, led_out, cmd>>

(* filter_r8152_devices(.., true)?.pop() *)
SetFilter ==
    /\ pc = "idle"
    /\ \E c \in CmdSetValues, a \in UsbAnswers, found \in BOOLEAN :
           /\ cmd' = << c >>
           /\ op' = Operation("handle_cmd_set", "Pla", PLA_LED_SELECT, 4, 0)
           /\ calls' = <<>>
           /\ IF a # "ok"
                THEN pc' = "done" /\ result' = "Usb" /\ usb_error' = << a >>
              ELSE IF ~found
                THEN pc' = "done" /\ result' = "NotExist" /\ usb_error' = <<>>
              ELSE pc' = "set_new" /\ result' = "none" /\ usb_error' = <<>>
           /\ UNCHANGED <<cur, remaining, retval, lane, led_in, led_config, led_out>>

(* CtrlDevice::new(device.open()?)? *)
SetNew ==
    /\ pc = "set_new"
    /\ \E a \in UsbAnswers, out \in TransportOutcomes(4), dev \in SetVersionLanes :
           IF a # "ok" THEN SetReturns("Usb", << a >>, <<>>)
           ELSE LET r == new(out, dev)
                IN  IF r.res # "Ok" THEN SetReturns(r.res, r.err, r.calls)
                    ELSE SetContinues("set_print", r.calls) /\ UNCHANGED <<led_in, led_config>>

(* print_device_line(&ctrl)? *)
SetPrintDeviceLine ==
    /\ pc = "set_print"
    /\ \E a \in UsbAnswers, out \in TransportOutcomes(4), dev \in SetVersionLanes :
           IF a # "ok" THEN SetReturns("Usb", << a >>, <<>>)
           ELSE LET r == version(out, dev)
                IN  IF r.res # "Ok" THEN SetReturns(r.res, r.err, r.calls)
                    ELSE SetContinues("set_config", r.calls) /\ UNCHANGED <<led_in, led_config>>

(* let led_config = if let Some(raw) = cmd.raw { .. } else { .. }; *)
SetConfig ==
    /\ pc = "set_config"
    /\ IF cmd[1].raw # None
         THEN /\ SetContinues("set_write", <<>>)
              /\ led_in' = cmd[1].raw[1]
              /\ led_config' = << LedGlobalConfig_from_raw(cmd[1].raw[1]) >>
         ELSE \E out \in TransportOutcomes(4), dev \in SetLedLanes :
                  LET r == LedGlobalConfig_read_from(out, dev)
                  IN  IF r.res # "Ok" THEN SetReturns(r.res, r.err, r.calls)
                      ELSE /\ SetContinues("set_write", r.calls)
                           /\ led_in' = from_le_bytes(dev)
                           /\ led_config' =
                                  << update_led_config(cmd[1], r.ret[1], ~cmd[1].no_default) >>

SetWrite_IgnoreDry ==
    /\ pc = "set_write"
    /\ \E out \in TransportOutcomes(4) :
           LET r == LedGlobalConfig_write_to(led_config[1], out)
           IN  /\ pc' = "done"
               /\ result' = r.res
               /\ usb_error' = r.err
               /\ calls' = calls \o r.calls
               /\ led_out' = << LedGlobalConfig_to_raw(led_config[1]) >>
               /\ UNCHANGED <<op, cur, remaining, retval, lane, led_in, led_config, cmd>>

(* if cmd.dry { .. } else { led_config.write_to(&ctrl)?; } Ok(()) *)
SetWrite ==
    /\ pc = "set_write"
    /\ IF cmd[1].dry
         THEN SetReturns("Ok", <<>>, <<>>)
         ELSE \E out \in TransportOutcomes(4) :
                  LET r == LedGlobalConfig_write_to(led_config[1], out)
                  IN  /\ pc' = "done"
                      /\ result' = r.res
                      /\ usb_error' = r.err
                      /\ calls' = calls \o r.calls
                      /\ led_out' = << LedGlobalConfig_to_raw(led_config[1]) >>
                      /\ UNCHANGED <<op, cur, remaining, retval, lane, led_in, led_config, cmd>>

(* The process exits; the next run starts from scratch. *)
SetExit ==
    /\ pc = "done"
    /\ pc' = "idle"
    /\ op' = Operation("none", "Usb", 0, 0, 0)
    /\ calls' = <<>>
    /\ result' = "none"
    /\ usb_error' = <<>>
    /\ led_in' = {}
    /\ led_config' = <<>>
    /\ led_out' = <<>>
    /\ cmd' = <<>>
    /\ UNCHANGED <<cur, remaining, retval, lane>>

NextSet ==
    \/ SetFilter
    \/ SetNew
    \/ SetPrintDeviceLine
    \/ SetConfig
    \/ SetWrite
    \/ SetExit

SpecSet == Init /\ [][NextSet]_vars

----------------------------------------------------------------------------
(* C1: for every 32-bit value v, to_raw(from_raw(v)) = v, the residue bits *)
(* 20-31 included.                                                         *)
C1_RoundTrip == led_out # <<>> => led_out[1] = led_in

(* A value with residue bits and named fields set has been decoded and     *)
(* encoded again.                                                          *)
C1_Witness ==
    /\ led_out # <<>>
    /\ And32(led_in, Not32(LED_VALUE_MASK)) # {}
    /\ led_config[1].led_2.activity
    /\ led_config[1].led_1.high_active
    /\ led_config[1].blink_interval = "I80"

----------------------------------------------------------------------------
(* Claims about the register access layer, over Spec.                      *)

Returned(names) == pc = "done" /\ op.name \in names

Misaligned == op.offset % 4 # 0 \/ op.len % 4 # 0

(* The transport answered every call of the operation in full.             *)
AllFull ==
    \A k \in 1 .. Len(calls) : ~calls[k].ret.usb /\ calls[k].ret.n = calls[k].len

(* C2 as stated: a bulk write returns Bound if and only if                 *)
(* offset + length > 65535, whatever the alignment and the transport.      *)
C2_BoundIff ==
    Returned({"write"}) => (result = "Bound" <=> op.offset + op.len > 65535)

(* C2, amended: a bulk write returns Bound only if offset + length > 65535 *)
(* and the offset is a multiple of 4; and when offset and length are       *)
(* multiples of 4 and offset + length > 65535 the write fails: with Bound  *)
(* when every transport call it issued was answered in full, and otherwise *)
(* with the error of the call for an earlier chunk that failed (Usb) or    *)
(* came back short (Partial).                                              *)
C2_BoundAmended ==
    Returned({"write"}) =>
        /\ result = "Bound" => (op.offset + op.len > 65535 /\ op.offset % 4 = 0)
        /\ (~Misaligned /\ op.offset + op.len > 65535) =>
               IF AllFull THEN result = "Bound" ELSE result \in {"Usb", "Partial"}

(* An aligned write whose second chunk crosses the bound returned Bound    *)
(* after its first chunk was transferred.                                  *)
C2_Witness ==
    /\ Returned({"write"})
    /\ ~Misaligned
    /\ op.offset + op.len > 65535
    /\ result = "Bound"
    /\ Len(calls) = 1

(* C3 as stated: a bulk write returns Align if and only if the offset or   *)
(* the length is not a multiple of 4, the empty buffer included.           *)
C3_AlignIff ==
    Returned({"write"}) => (result = "Align" <=> Misaligned)

(* C3, amended: a bulk write returns Align only if the buffer is not empty *)
(* and the offset or the length is not a multiple of 4; a non-empty write  *)
(* at a misaligned offset returns Align before any transport call; a write *)
(* at an aligned offset whose length is not a multiple of 4 fails: when    *)
(* every transport call it issued was answered in full, with Align, or     *)
(* with Bound if an earlier chunk crossed the bound, and otherwise with    *)
(* the transport's error (Usb, Partial); an empty write returns Ok.        *)
C3_AlignAmended ==
    Returned({"write"}) =>
        /\ result = "Align" => (Misaligned /\ op.len > 0)
        /\ (op.len > 0 /\ op.offset % 4 # 0) => (result = "Align" /\ calls = <<>>)
        /\ (op.offset % 4 = 0 /\ op.len % 4 # 0) =>
               IF AllFull THEN result \in {"Align", "Bound"} ELSE result \in {"Usb", "Partial"}
        /\ op.len = 0 => result = "Ok"

(* A write at an aligned offset with a misaligned length over one chunk    *)
(* returned Align after the full chunks before the last were transferred.  *)
C3_Witness ==
    /\ Returned({"write"})
    /\ op.offset % 4 = 0
    /\ op.len % 4 # 0
    /\ op.len > 512
    /\ result = "Align"
    /\ Len(calls) >= 1

(* C4: whenever a bulk read or write returns Align or Bound, that          *)
(* operation has issued no transport call.                                 *)
C4_ValidatedBeforeFirstChunk ==
    (Returned({"read", "write"}) /\ result \in {"Align", "Bound"}) => calls = <<>>

(* C5: read_byte and write_byte return neither Align nor Bound, at any     *)
(* 16-bit offset.                                                          *)
C5_ByteAnyOffset ==
    Returned({"read_byte", "write_byte"}) => result \notin {"Align", "Bound"}

(* The byte-enable mask of a call: its index field less the space selector *)
ByteMaskOf(call) == call.index - RegType_to_raw(op.ty)

(* C6: read_byte and write_byte at offset o issue exactly one 4-byte       *)
(* transfer at o & ~3 with byte-enable mask 0x11 << (o & 3); read_byte     *)
(* returns, and write_byte supplies, the byte of the lane at o & 3.        *)
C6_ByteAccess ==
    Returned({"read_byte", "write_byte"}) =>
        /\ Len(calls) = 1
        /\ calls[1].len = 4
        /\ calls[1].value = op.offset - (op.offset % 4)
        /\ ByteMaskOf(calls[1]) = 17 * Pow2(op.offset % 4)
        /\ (op.name = "read_byte" /\ result = "Ok") =>
               retval = << lane[1][(op.offset % 4) + 1] >>
        /\ op.name = "write_byte" =>
               calls[1].bytes[(op.offset % 4) + 1] = op.value

(* C7: read_word and write_word at an even offset o issue exactly one      *)
(* 4-byte transfer at o & ~3 with byte-enable mask 0x33 << (o & 2);        *)
(* read_word returns the 16 bits of the lane at byte o & 2, write_word     *)
(* supplies a lane with the value there and zero in the other two bytes.   *)
C7_WordAccess ==
    (Returned({"read_word", "write_word"}) /\ op.offset % 2 = 0) =>
        LET sh == op.offset % 4
        IN  /\ Len(calls) = 1
            /\ calls[1].len = 4
            /\ calls[1].value = op.offset - sh
            /\ ByteMaskOf(calls[1]) = 51 * Pow2(sh)
            /\ ByteMaskOf(calls[1]) \in {51, 204}
            /\ (op.name = "read_word" /\ result = "Ok") =>
                   retval = << lane[1][sh + 1] + 256 * lane[1][sh + 2] >>
            /\ op.name = "write_word" =>
                   /\ calls[1].bytes[sh + 1] + 256 * calls[1].bytes[sh + 2] = op.value
                   /\ calls[1].bytes[3 - sh] = 0
                   /\ calls[1].bytes[4 - sh] = 0

(* The part of C7 the code keeps: the same, for even offsets below 0xFFFC. *)
C7_WordAccessBelowLastDword ==
    op.offset < 65532 => C7_WordAccess

LimitOf(name) == IF name = "read" THEN 64 ELSE 512

CeilDiv(a, b) == (a + b - 1) \div b

RECURSIVE SumLen(_)
SumLen(cs) == IF cs = <<>> THEN 0 ELSE Head(cs).len + SumLen(Tail(cs))

(* C8: a bulk transfer of length L at offset o, o and L multiples of 4,    *)
(* o + L <= 65535, every transport call answered in full, is issued as     *)
(* consecutive calls in ascending offset order, the k-th (from 0) at       *)
(* o + k*limit (limit 64 for read, 512 for write), each but the last of    *)
(* exactly limit bytes, the last of at most limit, the lengths summing to  *)
(* L; the operation returns Ok after ceil(L/limit) calls.                  *)
C8_Chunking ==
    (op.name \in {"read", "write"} /\ ~Misaligned /\ op.offset + op.len <= 65535 /\ AllFull) =>
        LET limit == LimitOf(op.name)
        IN  /\ \A k \in 1 .. Len(calls) :
                   /\ calls[k].value = op.offset + (k - 1) * limit
                   /\ calls[k].len <= limit
                   /\ calls[k].len > 0
                   /\ k < CeilDiv(op.len, limit) => calls[k].len = limit
                   /\ k > 1 => calls[k].value > calls[k - 1].value
            /\ Len(calls) <= CeilDiv(op.len, limit)
            /\ pc = "done" =>
                   /\ result = "Ok"
                   /\ Len(calls) = CeilDiv(op.len, limit)
                   /\ SumLen(calls) = op.len

(* A valid four-chunk read and a valid write whose last chunk is short     *)
(* have returned.                                                          *)
C8_Witness ==
    /\ pc = "done"
    /\ ~Misaligned
    /\ AllFull
    /\ result = "Ok"
    /\ \/ op.name = "write" /\ op.len = 1028 /\ Len(calls) = 3 /\ calls[3].len = 4
       \/ op.name = "read" /\ op.len = 100 /\ Len(calls) = 2 /\ calls[2].len = 36

(* C9: a bulk read or write of an empty buffer returns Ok and issues no    *)
(* transport call, for every space and every offset, aligned or not.       *)
C9_ZeroLength ==
    (Returned({"read", "write"}) /\ op.len = 0) => (result = "Ok" /\ calls = <<>>)

(* An empty read at a misaligned offset in the last dword has returned.    *)
C9_Witness ==
    /\ Returned({"read"})
    /\ op.len = 0
    /\ op.offset = 65535
    /\ result = "Ok"

(* C10: read_word and write_word return Align at every odd offset,         *)
(* read_dword and write_dword at every offset that is not a multiple of 4, *)
(* and no transport call is issued in these rejections.                    *)
C10_AlignRejected ==
    /\ (Returned({"read_word", "write_word"}) /\ op.offset % 2 # 0) =>
           (result = "Align" /\ calls = <<>>)
    /\ (Returned({"read_dword", "write_dword"}) /\ op.offset % 4 # 0) =>
           (result = "Align" /\ calls = <<>>)

(* A word write at an odd offset and a dword read at an even offset that   *)
(* is not a multiple of 4 have been rejected.                              *)
C10_Witness ==
    /\ pc = "done"
    /\ result = "Align"
    /\ \/ op.name = "write_word" /\ op.offset = 3
       \/ op.name = "read_dword" /\ op.offset = 2

----------------------------------------------------------------------------
RegisterOps ==
    { "read", "write", "read_dword", "write_dword", "read_word", "write_word",
      "read_byte", "write_byte" }

Full(call) == ~call.ret.usb /\ call.ret.n = call.len

(* C11: a register-layer error is terminal and never retried.  A transport *)
(* error is returned unchanged (Error::Usb of the same rusb error), a byte *)
(* count other than the one requested gives Partial, no transport call     *)
(* follows a failed one, and the chunks of a bulk transfer are each issued *)
(* at most once, in order: the calls are a prefix of the chunk sequence.   *)
C11_ErrorsTerminal ==
    op.name \in RegisterOps =>
        LET n == Len(calls)
        IN  /\ \A k \in 1 .. n - 1 : Full(calls[k])
            /\ pc # "done" => AllFull
            /\ op.name \in {"read", "write"} =>
                   \A k \in 1 .. n :
                       /\ calls[k].value = op.offset + (k - 1) * LimitOf(op.name)
                       /\ calls[k].len = Min(LimitOf(op.name), op.len - (k - 1) * LimitOf(op.name))
            /\ op.name \notin {"read", "write"} => n <= 1
            /\ (pc = "done" /\ n > 0 /\ calls[n].ret.usb) =>
                   (result = "Usb" /\ usb_error = << calls[n].ret.err >>)
            /\ (pc = "done" /\ n > 0 /\ ~calls[n].ret.usb /\ calls[n].ret.n # calls[n].len) =>
                   result = "Partial"
            /\ (pc = "done" /\ result = "Usb") => (n > 0 /\ calls[n].ret.usb)
            /\ (pc = "done" /\ result = "Partial") =>
                   (n > 0 /\ ~calls[n].ret.usb /\ calls[n].ret.n # calls[n].len)
            /\ (pc = "done" /\ result # "Usb") => usb_error = <<>>

(* A three-chunk write has returned the Pipe error of its second chunk,    *)
(* the third chunk never issued.                                           *)
C11_Witness ==
    /\ Returned({"write"})
    /\ op.len = 1028
    /\ Len(calls) = 2
    /\ result = "Usb"
    /\ usb_error = << "Pipe" >>
    /\ remaining = 4

----------------------------------------------------------------------------
KnownCodes == { p[1] : p \in VersionTable }

(* The revision code of the dword the device answered: bits 16..31 of the  *)
(* little-endian lane under the mask 0x7CF0.                               *)
CodeOfLane(b) == BitAnd(b[3], 240) + 256 * BitAnd(b[4], 124)

(* C12: CtrlDevice::new issues one dword read of PLA register 0xE610; when *)
(* the read succeeds with value r it fails with UnknownDevice iff          *)
(* (r >> 16) & 0x7CF0 is not a known revision code and returns a handle    *)
(* iff it is; a failed read is returned as its own error.                  *)
C12_NewAdmission ==
    Returned({"new"}) =>
        /\ Len(calls) = 1
        /\ calls[1].request_type = RTL8152_REQT_READ
        /\ calls[1].value = 58896
        /\ calls[1].index = 256 + 255
        /\ calls[1].len = 4
        /\ Full(calls[1]) =>
               /\ Len(lane) = 1
               /\ (result = "UnknownDevice") <=> (CodeOfLane(lane[1]) \notin KnownCodes)
               /\ (result = "Ok" /\ retval = << "CtrlDevice" >>) <=> (CodeOfLane(lane[1]) \in KnownCodes)
        /\ calls[1].ret.usb => (result = "Usb" /\ usb_error = << calls[1].ret.err >>)
        /\ (~calls[1].ret.usb /\ calls[1].ret.n # 4) => result = "Partial"

(* A device answering 0x4C20, a code next to two listed ones, was refused.  *)
C12_Witness ==
    /\ Returned({"new"})
    /\ Len(calls) = 1
    /\ Full(calls[1])
    /\ lane = << <<0, 0, 32, 76>> >>
    /\ result = "UnknownDevice"

----------------------------------------------------------------------------
(* The two-bit code at bits lo, lo + 1 of the value being decoded. *)
CodeAt(lo) == (IF lo \in led_in THEN 1 ELSE 0) + (IF (lo + 1) \in led_in THEN 2 ELSE 0)

LedOf(c, i) == IF i = 0 THEN c.led_0 ELSE IF i = 1 THEN c.led_1 ELSE c.led_2

(* C13: decoding is total and follows the layout: for every 32-bit v,      *)
(* from_raw(v) completes without panic; for LED i, link10, link100,        *)
(* link1000, activity are bits 4i .. 4i+3 and high_active is bit 12+i;     *)
(* all_link_activity is bit 15; the duty cycle is the code in bits 16-17,  *)
(* the interval the code in bits 18-19; unknown is v with bits 0-19        *)
(* cleared.  from_raw(0) has every flag false, 240ms, 12.5%, no residue.   *)
C13_DecodeLayout ==
    led_config # <<>> =>
        LET c == led_config[1]
        IN  /\ \A i \in 0 .. 2 :
                   /\ LedOf(c, i).link10 = ((4 * i) \in led_in)
                   /\ LedOf(c, i).link100 = ((4 * i + 1) \in led_in)
                   /\ LedOf(c, i).link1000 = ((4 * i + 2) \in led_in)
                   /\ LedOf(c, i).activity = ((4 * i + 3) \in led_in)
                   /\ LedOf(c, i).high_active = ((12 + i) \in led_in)
            /\ c.all_link_activity = (15 \in led_in)
            /\ c.blink_duty_cycle # "panic"
            /\ c.blink_interval # "panic"
            /\ c.blink_duty_cycle = << "R12_5", "R25", "R50", "R75" >>[CodeAt(16) + 1]
            /\ c.blink_interval = << "I240", "I160", "I80", "ILink" >>[CodeAt(18) + 1]
            /\ c.unknown = { k \in led_in : k >= 20 }
            /\ led_in = {} =>
                   /\ \A i \in 0 .. 2 :
                          /\ ~LedOf(c, i).link10 /\ ~LedOf(c, i).link100
                          /\ ~LedOf(c, i).link1000 /\ ~LedOf(c, i).activity
                          /\ ~LedOf(c, i).high_active
                   /\ ~c.all_link_activity
                   /\ c.blink_interval = "I240"
                   /\ c.blink_duty_cycle = "R12_5"
                   /\ c.unknown = {}

(* 0x5AA55AA5 has been decoded: flags of all three LEDs, both codes and    *)
(* residue bits are set in it.                                             *)
C13_Witness ==
    /\ led_in = {0, 2, 5, 7, 9, 11, 12, 14, 16, 18, 21, 23, 25, 27, 28, 30}
    /\ led_config # <<>>
    /\ led_config[1].led_1.activity
    /\ led_config[1].led_2.high_active
    /\ led_config[1].blink_interval = "I160"
    /\ led_config[1].unknown = {21, 23, 25, 27, 28, 30}

----------------------------------------------------------------------------
(* C14: in the set command the options --led2-link, --led2-act and         *)
(* --led2-reverse control LED 2 as the led0 options control LED 0: after   *)
(* update_led_config a given led2 option is the value of LED 2's flags,    *)
(* and LED 2's flags do not depend on the led1 options (a flag whose led2  *)
(* option is absent is the default, or with --no-default the value read).  *)
C14_Led2Options ==
    (pc \in {"set_write", "done"} /\ cmd # <<>> /\ led_config # <<>> /\ cmd[1].raw = None) =>
        LET c == cmd[1]
            before == LedGlobalConfig_from_raw(led_in).led_2
            led == led_config[1].led_2
        IN  /\ IF c.led2_link # None
                 THEN /\ led.link10 = c.led2_link[1].link10
                      /\ led.link100 = c.led2_link[1].link100
                      /\ led.link1000 = c.led2_link[1].link1000
                 ELSE /\ led.link10 = (IF c.no_default THEN before.link10 ELSE FALSE)
                      /\ led.link100 = (IF c.no_default THEN before.link100 ELSE FALSE)
                      /\ led.link1000 = (IF c.no_default THEN before.link1000 ELSE FALSE)
            /\ IF c.led2_act # None
                 THEN led.activity = c.led2_act[1]
                 ELSE led.activity = (IF c.no_default THEN before.activity ELSE FALSE)
            /\ IF c.led2_reverse # None
                 THEN led.high_active = c.led2_reverse[1]
                 ELSE led.high_active = (IF c.no_default THEN before.high_active ELSE FALSE)

(* C15: with --dry, whatever the other options, handle_cmd_set issues only *)
(* register reads and no write control transfer; without --dry and with no *)
(* earlier error it issues exactly one dword write, to PLA register        *)
(* 0xDD90, after every read.                                               *)
C15_DryRun ==
    cmd # <<>> =>
        LET c == cmd[1]
            n == Len(calls)
            IsRead(k) == calls[k].request_type = 192 /\ calls[k].request = 5
            IsWrite(k) == calls[k].request_type = 64 /\ calls[k].request = 5
            reads == IF c.raw = None THEN 3 ELSE 2
        IN  /\ \A k \in 1 .. n : IsRead(k) \/ IsWrite(k)
            /\ c.dry => \A k \in 1 .. n : IsRead(k)
            /\ c.dry => led_out = <<>>
            /\ \A k \in 1 .. n :
                   IsWrite(k) =>
                       /\ ~c.dry
                       /\ pc = "done"
                       /\ k = n
                       /\ k = reads + 1
                       /\ calls[k].value = 56720
                       /\ calls[k].index = 256 + 255
                       /\ calls[k].len = 4
                       /\ calls[k].bytes = to_le_bytes(LedGlobalConfig_to_raw(led_config[1]))
                       /\ \A j \in 1 .. k - 1 : IsRead(j) /\ Full(calls[j])
            /\ (pc = "done" /\ ~c.dry /\ result = "Ok") => (n = reads + 1 /\ IsWrite(n))
            /\ (pc = "done" /\ c.dry /\ result = "Ok") => n = reads

(* A dry run with options that change the configuration read from the      *)
(* device has returned Ok after its three reads.                           *)
C15_Witness ==
    /\ pc = "done"
    /\ cmd # <<>>
    /\ cmd[1].dry
    /\ cmd[1].raw = None
    /\ result = "Ok"
    /\ Len(calls) = 3
    /\ calls[3].value = 56720
    /\ LedGlobalConfig_to_raw(led_config[1]) # led_in

----------------------------------------------------------------------------
ByteEnableMasks == {255, 51, 204, 17, 34, 68, 136}

(* C16: whatever the register operations, their arguments and the          *)
(* transport's answers, every control transfer issued has a length that is *)
(* non-zero and a multiple of 4, an offset that is a multiple of 4,        *)
(* offset + length <= 65535, at most 64 bytes for a read and 512 for a     *)
(* write, request 0x05 with type 0xC0 (read) or 0x40 (write), and an index *)
(* that is the space selector OR-ed with a byte-enable mask of the seven   *)
(* the accessors use; no dword containing 0xFFFC is ever transferred.      *)
C16_CallsWellFormed ==
    \A k \in 1 .. Len(calls) :
        LET call == calls[k]
        IN  /\ call.len > 0
            /\ call.len % 4 = 0
            /\ call.value % 4 = 0
            /\ call.value + call.len <= 65535
            /\ call.request = 5
            /\ call.request_type \in {192, 64}
            /\ call.request_type = 192 => call.len <= 64
            /\ call.request_type = 64 => call.len <= 512
            /\ call.index \in { sel + m : sel \in {0, 256}, m \in ByteEnableMasks }
            /\ call.value + call.len - 1 < 65532

(* write_byte at 0xFFFB has issued its transfer: the last dword the layer  *)
(* transfers, with byte-enable mask 0x88.                                  *)
C16_Witness ==
    /\ Returned({"write_byte"})
    /\ op.offset = 65531
    /\ Len(calls) = 1
    /\ calls[1].value = 65528
    /\ calls[1].index = RegType_to_raw(op.ty) + 136

====
